---- MODULE Spec2Model ----
(***************************************************************************)
(* The tensor-iterator benchmark: the shape/layout generator               *)
(* (benchmark/layout_shape.py), the array factories                        *)
(* (benchmark/factories.py), the orchestrator (benchmark/unary.py), the    *)
(* comparison of two runs (compare/__init__.py) and the selection widgets  *)
(* of the report (compare/plot.py).                                        *)
(***************************************************************************)
EXTENDS Integers, Sequences, FiniteSets, TLC

VARIABLES
    call,       \* the function applied last, with its arguments
    result,     \* what that call returned or raised
    tensor,     \* the array a LayoutShape.new built last
    layouts,    \* combine_layouts_and_shapes: the layout table it was given
    more,       \*   its argument `more`
    dtype,      \*   its argument `dtype`
    pc,         \*   where it is: "idle", "gen", "returned" or "raised"
    li,         \*   the index into layouts of the layout of the outer loop
    size1,      \*   the loop variable size (pure layouts) or size1 (mixed)
    size2,      \*   the loop variable size2 (mixed layouts)
    ret1d,      \*   ret1d: name -> list of LayoutShape
    ret2d,      \*   ret2d: name -> non_contiguous_size -> list of LayoutShape
    opc,        \* compare_problem_sizes: where the generator is
    taken,      \*   how many combinations the module's iterator has given
    op,         \*   the operation of the current combination
    pos,        \*   the sweep being benchmarked: dict, name, group, device
    fi,         \*   benchmark_cpu/_cuda: the index into factories of the loop
    data,       \*   benchmark_cpu/_cuda: the data points recorded so far
    live,       \* the arrays that are allocated and not yet reclaimed
    results,    \* benchmark.results[title]: the records the caller has received
    invoked,    \* run: per invocation, the records received before it was made
    files,      \* generate_html: the persisted runs `baseline` and `new` name
    loaded,     \*   the two runs as data.load gave them
    compare,    \*   what data.compare gave, for the title of the runs
    rpc,        \* where the report is: generate_html, then serve
    selects1d,  \* plot_experiment: the Select widgets of the 1-D plot
    selects2d,  \*   the Select widgets of the 2-D plot
    source1d,   \*   the columns the 1-D plot shows
    source2d,   \*   the columns the 2-D plot shows
    raised      \* the exception the report raised last, if any

fnVars == <<call, result, tensor>>
genVars == <<layouts, more, dtype, pc, li, size1, size2, ret1d, ret2d>>
benchVars == <<opc, taken, op, pos, fi, data, live, results, invoked>>
reportVars ==
    <<files, loaded, compare, rpc, selects1d, selects2d, source1d, source2d, raised>>
vars == <<fnVars, genVars, benchVars, reportVars>>

(***************************************************************************)
(* Python integers are unbounded, and the generator computes extents up to *)
(* 2^31 and element counts far above that.  A Python integer that can grow *)
(* that large is a little-endian sequence of limbs in base 2^15 with no    *)
(* leading zero limb (zero is the empty sequence), so that equal integers  *)
(* are equal sequences.                                                    *)
(***************************************************************************)
Base == 2^15

RECURSIVE Big(_)
Big(n) == IF n = 0 THEN <<>> ELSE <<n % Base>> \o Big(n \div Base)

RECURSIVE BigAddC(_, _, _)
BigAddC(a, b, carry) ==
    IF a = <<>> /\ b = <<>>
    THEN Big(carry)
    ELSE LET x == IF a = <<>> THEN 0 ELSE Head(a)
             y == IF b = <<>> THEN 0 ELSE Head(b)
             s == x + y + carry
         IN  <<s % Base>> \o BigAddC(IF a = <<>> THEN <<>> ELSE Tail(a),
                                     IF b = <<>> THEN <<>> ELSE Tail(b),
                                     s \div Base)

BigAdd(a, b) == BigAddC(a, b, 0)

\* a times one limb m (0 <= m < Base), plus a carry
RECURSIVE BigMulLimb(_, _, _)
BigMulLimb(a, m, carry) ==
    IF m = 0 THEN <<>>
    ELSE IF a = <<>> THEN Big(carry)
    ELSE LET p == Head(a) * m + carry
         IN  <<p % Base>> \o BigMulLimb(Tail(a), m, p \div Base)

RECURSIVE BigMul(_, _)
BigMul(a, b) ==
    IF a = <<>> \/ b = <<>> THEN <<>>
    ELSE LET rest == BigMul(a, Tail(b))
         IN  BigAdd(BigMulLimb(a, Head(b), 0),
                    IF rest = <<>> THEN <<>> ELSE <<0>> \o rest)

\* a > b
RECURSIVE BigGt(_, _)
BigGt(a, b) ==
    IF Len(a) # Len(b) THEN Len(a) > Len(b)
    ELSE IF a = <<>> THEN FALSE
    ELSE LET n == Len(a)
         IN  IF a[n] # b[n] THEN a[n] > b[n]
             ELSE BigGt(SubSeq(a, 1, n - 1), SubSeq(b, 1, n - 1))

BigLe(a, b) == ~BigGt(a, b)

\* 2 * e where 2 ** e is meant
Pow2_product(e) == Big(2 * e)

\* 2 ** e
RECURSIVE Pow2(_)
Pow2(e) == IF e < 15 THEN <<2^e>> ELSE <<0>> \o Pow2(e - 15)

RECURSIVE BigProd(_)
BigProd(s) == IF s = <<>> THEN Big(1) ELSE BigMul(Head(s), BigProd(Tail(s)))

(***************************************************************************)
(* Python values                                                           *)
(***************************************************************************)
\* A value whose Python type is inspected at run time carries its type.
PyInt(n) == [type |-> "int", val |-> n]
PyTuple(t) == [type |-> "tuple", val |-> t]
None == [type |-> "NoneType"]

\* set(seq)
SetOf(s) == {s[i] : i \in DOMAIN s}

\* (x,) * n
RECURSIVE Repeat(_, _)
Repeat(x, n) == IF n <= 0 THEN <<>> ELSE <<x>> \o Repeat(x, n - 1)

\* A dict keeps its keys in insertion order: a sequence of (key, value) entries.
Keys(d) == [i \in DOMAIN d |-> d[i].key]
HasKey(d, k) == \E i \in DOMAIN d : d[i].key = k
Get(d, k) == d[CHOOSE i \in DOMAIN d : d[i].key = k].value
Put(d, k, v) ==
    IF HasKey(d, k)
    THEN [i \in DOMAIN d |-> IF d[i].key = k THEN [key |-> k, value |-> v] ELSE d[i]]
    ELSE Append(d, [key |-> k, value |-> v])

\* d[k].append(v), d a defaultdict(list)
AppendTo(d, k, v) == Put(d, k, Append(IF HasKey(d, k) THEN Get(d, k) ELSE <<>>, v))

\* d[k1][k2].append(v), d a defaultdict of defaultdict(list)
AppendTo2(d, k1, k2, v) ==
    Put(d, k1, AppendTo(IF HasKey(d, k1) THEN Get(d, k1) ELSE <<>>, k2, v))

\* What a call gives when an assert fails.
AssertionError == [raised |-> "AssertionError"]
Raised(r) == "raised" \in DOMAIN r

(***************************************************************************)
(* The array engine: an array is its logical shape, its element strides    *)
(* and the shape of the buffer it is a view of.                            *)
(***************************************************************************)
\* The strides of a freshly allocated array: the last axis has stride 1 and
\* each other axis the product of the extents after it.
ContiguousStrides(shape) ==
    [i \in DOMAIN shape |-> BigProd(SubSeq(shape, i + 1, Len(shape)))]

\* torch.empty(shape)
Empty(shape) ==
    [shape |-> shape, stride |-> ContiguousStrides(shape), underlying |-> shape]

\* t.narrow(dim, 0, length): a view of the first `length` entries of axis dim
Narrow(t, dim, length) == [t EXCEPT !.shape[dim] = length]

\* t.squeeze(-1): the last axis is dropped when its extent is 1
SqueezeLast(t) ==
    LET n == Len(t.shape)
    IN  IF n > 0 /\ t.shape[n] = Big(1)
        THEN [t EXCEPT !.shape = SubSeq(t.shape, 1, n - 1),
                       !.stride = SubSeq(t.stride, 1, n - 1)]
        ELSE t

(***************************************************************************)
(* benchmark/factories.py                                                  *)
(***************************************************************************)
padding == 1

trivial_1d(shape) == Empty(shape)

RECURSIVE NarrowAll(_, _, _)
NarrowAll(t, shape, i) ==
    IF i > Len(shape) THEN t
    ELSE NarrowAll(Narrow(t, i, shape[i]), shape, i + 1)

contiguous_last_dim_unpadded(shape) == NarrowAll(trivial_1d(shape), shape, 1)

contiguous_last_dim_last_unpadded(shape) ==
    LET underlying_shape ==
            [i \in DOMAIN shape |->
                IF i = Len(shape) THEN shape[i] ELSE BigAdd(shape[i], Big(padding))]
    IN  NarrowAll(trivial_1d(underlying_shape), shape, 1)

contiguous_last_dim(shape) ==
    LET underlying_shape == [i \in DOMAIN shape |-> BigAdd(shape[i], Big(padding))]
    IN  NarrowAll(trivial_1d(underlying_shape), shape, 1)

\* A non_contiguous without the extra last axis that is squeezed away.
non_contiguous_no_extra_axis(shape) == contiguous_last_dim(shape)

non_contiguous(shape) == SqueezeLast(contiguous_last_dim(shape \o <<Big(1)>>))

(***************************************************************************)
(* benchmark/layout_shape.py                                               *)
(***************************************************************************)
layouts_full == <<
    <<"contiguous">>,
    <<"contiguous", "contiguous", "contiguous">>,
    <<"non_contiguous">>,
    <<"non_contiguous", "non_contiguous", "non_contiguous">>,
    <<"contiguous", "non_contiguous">>,
    <<"contiguous", "non_contiguous", "non_contiguous", "non_contiguous">> >>

layouts_small == <<
    <<"contiguous">>,
    <<"non_contiguous", "non_contiguous", "non_contiguous">>,
    <<"contiguous", "non_contiguous", "non_contiguous", "non_contiguous">> >>

LayoutShape(problem_size, factory, shape) ==
    [problem_size |-> problem_size, factory |-> factory, shape |-> shape]

split_size_drop_remainder(size, dims) ==
    LET s1 == size \div dims
    IN  Repeat(s1, dims - 1) \o <<s1>>

split_size(size, dims) ==
    LET s1 == size \div dims
        s2 == size - s1 * (dims - 1)
    IN  Repeat(s1, dims - 1) \o <<s2>>

Count(layout, tag) == Cardinality({i \in DOMAIN layout : layout[i] = tag})

\* make_layout_shape without `assert layout[0] == 'contiguous'`.
make_layout_shape_any_order(layout, contiguous_size, non_contiguous_size) ==
    LET countiguous_dims == Count(layout, "contiguous")
        non_contiguous_dims == Len(layout) - countiguous_dims
        pow(shape) == [i \in DOMAIN shape |-> Pow2(shape[i])]
    IN  IF \E i \in DOMAIN layout : layout[i] \notin {"contiguous", "non_contiguous"}
        THEN AssertionError
        ELSE IF non_contiguous_dims = 0
        THEN IF ~(countiguous_dims > 0) THEN AssertionError
             ELSE [name |-> "all contiguous " \o ToString(countiguous_dims) \o "d",
                   case |-> LayoutShape(PyInt(contiguous_size), "trivial_1d",
                                pow(split_size(contiguous_size, countiguous_dims)))]
        ELSE IF countiguous_dims = 0
        THEN [name |-> "all non-contiguous " \o ToString(non_contiguous_dims) \o "d",
              case |-> LayoutShape(PyInt(non_contiguous_size), "non_contiguous",
                           pow(split_size(non_contiguous_size, non_contiguous_dims)))]
        ELSE IF countiguous_dims # 1
        THEN AssertionError
        ELSE [name |-> "contiguous 1d and non-contiguous "
                           \o ToString(non_contiguous_dims) \o "d",
              case |-> LayoutShape(PyInt(contiguous_size + non_contiguous_size),
                           "contiguous_last_dim",
                           pow(split_size(non_contiguous_size, non_contiguous_dims)
                               \o <<contiguous_size>>))]

make_layout_shape(layout, contiguous_size, non_contiguous_size) ==
    LET countiguous_dims == Count(layout, "contiguous")
        non_contiguous_dims == Len(layout) - countiguous_dims
        pow(shape) == [i \in DOMAIN shape |-> Pow2(shape[i])]
    IN  IF \E i \in DOMAIN layout : layout[i] \notin {"contiguous", "non_contiguous"}
        THEN AssertionError
        ELSE IF non_contiguous_dims = 0
        THEN IF ~(countiguous_dims > 0) THEN AssertionError
             ELSE [name |-> "all contiguous " \o ToString(countiguous_dims) \o "d",
                   case |-> LayoutShape(PyInt(contiguous_size), "trivial_1d",
                                pow(split_size(contiguous_size, countiguous_dims)))]
        ELSE IF countiguous_dims = 0
        THEN [name |-> "all non-contiguous " \o ToString(non_contiguous_dims) \o "d",
              case |-> LayoutShape(PyInt(non_contiguous_size), "non_contiguous",
                           pow(split_size(non_contiguous_size, non_contiguous_dims)))]
        ELSE IF countiguous_dims # 1 \/ layout[1] # "contiguous"
        THEN AssertionError
        ELSE [name |-> "contiguous 1d and non-contiguous "
                           \o ToString(non_contiguous_dims) \o "d",
              case |-> LayoutShape(PyInt(contiguous_size + non_contiguous_size),
                           "contiguous_last_dim",
                           pow(split_size(non_contiguous_size, non_contiguous_dims)
                               \o <<contiguous_size>>))]

numel_after_pad(layout, shape) ==
    LET ret == BigProd([i \in DOMAIN shape |-> BigAdd(shape[i], Big(padding))])
    IN  IF SetOf(layout) = {"contiguous", "non_contiguous"} THEN ret
        ELSE IF SetOf(layout) = {"non_contiguous"}
        THEN BigMul(Big(1 + padding), ret)
        ELSE IF SetOf(layout) # {"contiguous"} THEN AssertionError
        ELSE BigProd(shape)

\* LayoutShape.new
new(self) ==
    CASE self.factory = "trivial_1d" -> trivial_1d(self.shape)
      [] self.factory = "contiguous_last_dim" -> contiguous_last_dim(self.shape)
      [] self.factory = "non_contiguous" -> non_contiguous(self.shape)

\* The dtypes of the array engine, one of each element width and kind.
all_dtypes ==
    <<"torch.uint8", "torch.int64", "torch.float16", "torch.float32", "torch.float64">>

sizeof(dt) ==
    CASE dt = "torch.uint8" -> 1
      [] dt = "torch.float16" -> 2
      [] dt = "torch.float32" -> 4
      [] dt \in {"torch.int64", "torch.float64"} -> 8

(***************************************************************************)
(* combine_layouts_and_shapes, one iteration of its innermost loop at a    *)
(* time.                                                                   *)
(***************************************************************************)
max_size == IF more THEN 31 ELSE 29
step == IF more THEN 1 ELSE 2

layout == layouts[li]

\* numel_after_pad(layout, shape) * sizeof(dtype) > 2 ** max_size
OverBudgetSkipPadding(lay, shape) ==
    BigGt(BigMul(BigProd(shape), Big(sizeof(dtype))), Pow2(max_size))

OverBudget(lay, shape) ==
    BigGt(BigMul(numel_after_pad(lay, shape), Big(sizeof(dtype))), Pow2(max_size))

\* The for loop over layouts takes its next layout.
NextLayout ==
    /\ li' = li + 1
    /\ size1' = 0
    /\ size2' = 0

\* The loop `for size in range(0, max_size + 1, step)` of a pure layout:
\* what follows the iteration whose body did not break.
NextSize ==
    IF size1 + step <= max_size
    THEN size1' = size1 + step /\ UNCHANGED <<li, size2>>
    ELSE NextLayout

GenRaise ==
    /\ pc' = "raised"
    /\ UNCHANGED <<layouts, more, dtype, li, size1, size2, ret1d, ret2d>>

\* GenContiguous with `continue` in the place of `break`.
GenContiguousSkip ==
    /\ pc = "gen"
    /\ li <= Len(layouts)
    /\ SetOf(layout) = {"contiguous"}
    /\ LET r == make_layout_shape(layout, size1, 0)
       IN  IF Raised(r) THEN GenRaise
           ELSE /\ IF OverBudget(layout, r.case.shape)
                   THEN NextSize /\ UNCHANGED ret1d
                   ELSE ret1d' = AppendTo(ret1d, r.name, r.case) /\ NextSize
                /\ UNCHANGED <<layouts, more, dtype, pc, ret2d>>
    /\ UNCHANGED <<fnVars, benchVars, reportVars>>

GenContiguous ==
    /\ pc = "gen"
    /\ li <= Len(layouts)
    /\ SetOf(layout) = {"contiguous"}
    /\ LET r == make_layout_shape(layout, size1, 0)
       IN  IF Raised(r) THEN GenRaise
           ELSE /\ IF OverBudget(layout, r.case.shape)
                   THEN NextLayout /\ UNCHANGED ret1d
                   ELSE ret1d' = AppendTo(ret1d, r.name, r.case) /\ NextSize
                /\ UNCHANGED <<layouts, more, dtype, pc, ret2d>>
    /\ UNCHANGED <<fnVars, benchVars, reportVars>>

GenNonContiguous ==
    /\ pc = "gen"
    /\ li <= Len(layouts)
    /\ SetOf(layout) = {"non_contiguous"}
    /\ LET r == make_layout_shape(layout, 0, size1)
       IN  IF Raised(r) THEN GenRaise
           ELSE /\ IF OverBudget(layout, r.case.shape)
                   THEN NextLayout /\ UNCHANGED ret1d
                   ELSE ret1d' = AppendTo(ret1d, r.name, r.case) /\ NextSize
                /\ UNCHANGED <<layouts, more, dtype, pc, ret2d>>
    /\ UNCHANGED <<fnVars, benchVars, reportVars>>

\* The nested loops over size1 and size2: what follows an iteration.
NextSizePair ==
    IF size2 + step <= max_size
    THEN size2' = size2 + step /\ UNCHANGED <<li, size1>>
    ELSE IF size1 + step <= max_size
    THEN size1' = size1 + step /\ size2' = 0 /\ UNCHANGED li
    ELSE NextLayout

GenMixed ==
    /\ pc = "gen"
    /\ li <= Len(layouts)
    /\ SetOf(layout) \notin {{"contiguous"}, {"non_contiguous"}}
    /\ IF SetOf(layout) # {"contiguous", "non_contiguous"} THEN GenRaise
       ELSE LET r == make_layout_shape(layout, size1, size2)
            IN  IF Raised(r) THEN GenRaise
                ELSE /\ IF ~OverBudget(layout, r.case.shape)
                        THEN ret2d' = AppendTo2(ret2d, r.name, size2, r.case)
                        ELSE UNCHANGED ret2d
                     /\ NextSizePair
                     /\ UNCHANGED <<layouts, more, dtype, pc, ret1d>>
    /\ UNCHANGED <<fnVars, benchVars, reportVars>>

GenReturn ==
    /\ pc = "gen"
    /\ li > Len(layouts)
    /\ pc' = "returned"
    /\ UNCHANGED <<layouts, more, dtype, li, size1, size2, ret1d, ret2d>>
    /\ UNCHANGED <<fnVars, benchVars, reportVars>>

GenNext == GenContiguous \/ GenNonContiguous \/ GenMixed \/ GenReturn

\* The layout descriptors and the sizes that are drawn as inputs.
MaxAxes == 3        \* the longest layout descriptor drawn
MaxBudget == 10     \* the largest size budget (an exponent) drawn
MaxDims == 4        \* the largest axis count split_size is applied to

Tags == {"contiguous", "non_contiguous", "strided"}

RECURSIVE SeqsUpTo(_, _)
SeqsUpTo(S, n) ==
    IF n = 0 THEN {<<>>}
    ELSE LET shorter == SeqsUpTo(S, n - 1)
         IN  shorter \cup {Append(s, x) : s \in {t \in shorter : Len(t) = n - 1}, x \in S}

Descriptors == SeqsUpTo(Tags, MaxAxes)

\* The parts of the state that a specification does not use.
NoCall == [fn |-> "none"]

\* A result not computed yet.
Pending == [type |-> "pending"]
Returned(v) == [returned |-> v]

GenIdle ==
    /\ layouts = <<>>
    /\ more = FALSE
    /\ dtype = "torch.float32"
    /\ pc = "idle"
    /\ li = 1
    /\ size1 = 0
    /\ size2 = 0
    /\ ret1d = <<>>
    /\ ret2d = <<>>

BenchIdle ==
    /\ opc = "idle"
    /\ taken = 0
    /\ op = "none"
    /\ pos = [dict |-> "none"]
    /\ fi = 1
    /\ data = <<>>
    /\ live = {}
    /\ results = <<>>
    /\ invoked = <<0>>

FnIdle ==
    /\ call = NoCall
    /\ result = Pending
    /\ tensor = None

NoError == [type |-> "none"]

ReportIdle ==
    /\ files = [baseline |-> <<>>, new |-> <<>>]
    /\ loaded = [baseline |-> Pending, new |-> Pending]
    /\ compare = Pending
    /\ rpc = "idle"
    /\ selects1d = <<>>
    /\ selects2d = <<>>
    /\ source1d = Pending
    /\ source2d = Pending
    /\ raised = NoError

(***************************************************************************)
(* benchmark/unary.py                                                      *)
(***************************************************************************)
selected_dtypes == <<"torch.float16", "torch.float32">>
floating_point_dtypes ==
    SelectSeq(all_dtypes,
              LAMBDA x : x \in {"torch.float16", "torch.float32", "torch.float64"})

all_dtype_ops == <<"abs", "logical_not", "sign">>

floating_points_ops == <<
    "acos", "asin", "ceil", "expm1", "frac", "floor", "log", "log10", "log2", "log1p",
    "round", "trunc", "rsqrt", "sin", "sinh", "sqrt", "sigmoid", "erfinv", "digamma",
    "trigamma", "lgamma" >>

selected_ops == <<"logical_not", "logical_not_", "abs", "rsqrt", "rsqrt_", "digamma">>

\* itertools.product(a, b) as the sequence it gives
Product(a, b) ==
    [n \in 1..(Len(a) * Len(b)) |->
        <<a[((n - 1) \div Len(b)) + 1], b[((n - 1) % Len(b)) + 1]>>]

selected_combinations == Product(selected_ops, selected_dtypes)
all_combinations ==
    Product(floating_points_ops, floating_point_dtypes) \o Product(all_dtype_ops, all_dtypes)

title == "unary op"

\* The combinations the generator iterates over.
combinations == IF more THEN all_combinations ELSE selected_combinations

\* layout_shape.get: the table combine_layouts_and_shapes is given
get_layout == IF more THEN layouts_full ELSE layouts_small

\* The layout table of the module as it may be configured: the table of the
\* source, or a table of one descriptor.
ConfiguredTables == {get_layout} \cup {<<d>> : d \in Descriptors}

\* The sweep at a position: its name, its factories and the
\* non_contiguous_size the setup carries.
name == IF pos.dict = "f1d" THEN ret1d[pos.ni].key ELSE ret2d[pos.ni].key
factories ==
    IF pos.dict = "f1d" THEN ret1d[pos.ni].value
    ELSE ret2d[pos.ni].value[pos.gi].value
\* The position of the group in its dict where its key is meant.
non_contiguous_size_position ==
    IF pos.dict = "f1d" THEN None ELSE PyInt(pos.gi)

non_contiguous_size ==
    IF pos.dict = "f1d" THEN None ELSE PyInt(ret2d[pos.ni].value[pos.gi].key)

setup(device, ncs) ==
    [op |-> op, dtype |-> dtype, layout |-> name, device |-> device,
     non_contiguous_size |-> ncs]

\* A loop body that yields the cpu record for every dtype.
FirstDeviceAlwaysCpu == "cpu"

\* The device of the first record of a sweep: float16 is not run on the cpu.
FirstDevice == IF dtype # "torch.float16" THEN "cpu" ELSE "cuda"

\* The first sweep of the loops over f1d.items() and f2d.items().
FirstPos ==
    IF ret1d # <<>> THEN [dict |-> "f1d", ni |-> 1, gi |-> 1, device |-> FirstDevice]
    ELSE IF ret2d # <<>> THEN [dict |-> "f2d", ni |-> 1, gi |-> 1, device |-> FirstDevice]
    ELSE [dict |-> "none"]

\* The sweep after the one at pos: the cuda record of the same sweep after
\* its cpu record, else the next entry of the dict that is iterated.
NextPos ==
    IF pos.device = "cpu" THEN [pos EXCEPT !.device = "cuda"]
    ELSE IF pos.dict = "f1d"
    THEN IF pos.ni < Len(ret1d)
         THEN [pos EXCEPT !.ni = pos.ni + 1, !.device = FirstDevice]
         ELSE IF ret2d # <<>>
         THEN [dict |-> "f2d", ni |-> 1, gi |-> 1, device |-> FirstDevice]
         ELSE [dict |-> "none"]
    ELSE IF pos.gi < Len(ret2d[pos.ni].value)
    THEN [pos EXCEPT !.gi = pos.gi + 1, !.device = FirstDevice]
    ELSE IF pos.ni < Len(ret2d)
    THEN [pos EXCEPT !.ni = pos.ni + 1, !.gi = 1, !.device = FirstDevice]
    ELSE [dict |-> "none"]

MaxCombinations == 2   \* the combinations the caller lets the generator take

\* for op, dtype in combinations: the next combination is taken and
\* layout_shape.get is called; the generator ends when there is none left.
NextCombination ==
    /\ opc = "combo"
    /\ taken < MaxCombinations
    /\ IF taken >= Len(combinations)
       THEN /\ opc' = "finished"
            /\ UNCHANGED <<taken, op, genVars>>
       ELSE /\ taken' = taken + 1
            /\ op' = combinations[taken + 1][1]
            /\ dtype' = combinations[taken + 1][2]
            /\ opc' = "get"
            /\ pc' = "gen"
            /\ li' = 1 /\ size1' = 0 /\ size2' = 0
            /\ ret1d' = <<>> /\ ret2d' = <<>>
            /\ UNCHANGED <<more, layouts>>
    /\ UNCHANGED <<reportVars, invoked, pos, fi, data, live, results, fnVars>>

\* layout_shape.get has returned f1d, f2d: the first sweep is taken up.
GetReturn ==
    /\ opc = "get"
    /\ pc = "returned"
    /\ pos' = FirstPos
    /\ opc' = IF FirstPos.dict = "none" THEN "combo" ELSE "bench"
    /\ fi' = 1
    /\ data' = <<>>
    /\ UNCHANGED <<reportVars, invoked, taken, op, live, results, fnVars, genVars>>

\* layout_shape.get has raised: nothing in the generator catches it.
GetRaise ==
    /\ opc = "get"
    /\ pc = "raised"
    /\ opc' = "raised"
    /\ UNCHANGED <<reportVars, invoked, taken, op, pos, fi, data, live, results, fnVars, genVars>>

\* The data point benchmark_cpu and benchmark_cuda record for a case: its
\* problem_size and the duration the timing harness gave.
PointOf(case) == [problem_size |-> case.problem_size, result |-> "seconds"]

\* An exception leaves benchmark_cpu/_cuda, the generator and its caller.
Raise ==
    /\ opc' = "raised"
    /\ UNCHANGED <<reportVars, invoked, taken, op, pos, fi, data, live, results, tensor, call, result, genVars>>

\* tensor = factory.new(dtype, device): the array is allocated, or the
\* allocation raises.
Construct ==
    /\ opc = "bench"
    /\ fi <= Len(factories)
    /\ \/ /\ tensor' = new(factories[fi])
          /\ live' = live \cup {[record |-> Len(results) + 1, case |-> fi]}
          /\ opc' = "time"
          /\ UNCHANGED <<reportVars, invoked, taken, op, pos, fi, data, results, call, result, genVars>>
       \/ Raise

\* f = getattr(tensor, op); the timer is built and run and the data point is
\* appended, or the operation raises.
Time ==
    /\ opc = "time"
    /\ \/ /\ data' = Append(data, PointOf(factories[fi]))
          /\ opc' = "release"
          /\ UNCHANGED <<reportVars, invoked, taken, op, pos, fi, live, results, fnVars, genVars>>
       \/ Raise

\* A loop body that ends without del and gc.collect().
ReleaseNothing ==
    /\ opc = "release"
    /\ fi' = fi + 1
    /\ opc' = "bench"
    /\ UNCHANGED <<reportVars, invoked, taken, op, pos, data, live, results, fnVars, genVars>>

\* del tensor, one_loop_timer, f; gc.collect()
Release ==
    /\ opc = "release"
    /\ tensor' = None
    /\ live' = live \ {[record |-> Len(results) + 1, case |-> fi]}
    /\ fi' = fi + 1
    /\ opc' = "bench"
    /\ UNCHANGED <<reportVars, invoked, taken, op, pos, data, results, call, result, genVars>>

\* benchmark_cpu/_cuda returns data; the record is yielded and the caller
\* appends it to results[title]; the generator goes on to the next sweep.
Yield ==
    /\ opc = "bench"
    /\ fi > Len(factories)
    /\ results' = Append(results,
            <<title, [setup |-> setup(pos.device, non_contiguous_size), data |-> data]>>)
    /\ pos' = NextPos
    /\ opc' = IF NextPos.dict = "none" THEN "combo" ELSE "bench"
    /\ fi' = 1
    /\ data' = <<>>
    /\ UNCHANGED <<reportVars, invoked, taken, op, live, fnVars, genVars>>

MaxInvocations == 2   \* the times the caller invokes run(more)

\* The caller has taken the first record of the invocation at hand, and the
\* generator is suspended at the yield that gave it; or the generator ended.
Consumed ==
    \/ /\ opc \in {"bench", "combo"}
       /\ fi = 1 /\ data = <<>>
       /\ Len(results) = invoked[Len(invoked)] + 1
    \/ opc = "finished"

\* run(more) is invoked again and the generator of the earlier invocation is
\* dropped: a new generator starts at `for op, dtype in ...`, over the
\* iterator of the module, which stays where the earlier invocations left it.
Invoke ==
    /\ Consumed
    /\ Len(invoked) < MaxInvocations
    /\ invoked' = Append(invoked, Len(results))
    /\ opc' = "combo"
    /\ op' = "none"
    /\ dtype' = "none"
    /\ pc' = "idle"
    /\ li' = 1 /\ size1' = 0 /\ size2' = 0
    /\ ret1d' = <<>> /\ ret2d' = <<>>
    /\ pos' = [dict |-> "none"]
    /\ fi' = 1
    /\ data' = <<>>
    /\ UNCHANGED <<reportVars, taken, live, results, more, layouts, fnVars>>

Init ==
    /\ FnIdle
    /\ ReportIdle
    /\ more \in BOOLEAN
    /\ layouts \in ConfiguredTables
    /\ dtype = "none"
    /\ pc = "idle"
    /\ li = 1 /\ size1 = 0 /\ size2 = 0
    /\ ret1d = <<>> /\ ret2d = <<>>
    /\ opc = "combo"
    /\ taken = 0
    /\ op = "none"
    /\ pos = [dict |-> "none"]
    /\ fi = 1
    /\ data = <<>>
    /\ live = {}
    /\ results = <<>>
    /\ invoked = <<0>>

Next ==
    \/ NextCombination
    \/ GenContiguous
    \/ GenNonContiguous
    \/ GenMixed
    \/ GenReturn
    \/ GetReturn
    \/ GetRaise
    \/ Construct
    \/ Time
    \/ Release
    \/ Yield
    \/ Invoke

Spec == Init /\ [][Next]_vars

(***************************************************************************)
(* compare/: generate_html loads two persisted runs, compares them and     *)
(* renders the comparison; serve plots each experiment of a comparison.    *)
(* compare/data.py is not in the source tree: load, hashabledict and       *)
(* compare follow the algorithm specified for the comparison engine (index *)
(* the records by setup as an unordered key, inner-join the two indices,   *)
(* drop a pair of differing lengths, compare[i] = new / baseline - 1).     *)
(***************************************************************************)
PyStr(s) == [type |-> "str", val |-> s]

\* A duration or a relative change: a rational number in lowest terms with
\* a positive denominator (floating-point rounding is left out).
RECURSIVE Gcd(_, _)
Gcd(a, b) == IF b = 0 THEN a ELSE Gcd(b, a % b)
Abs(x) == IF x < 0 THEN 0 - x ELSE x
Rat(n, d) ==
    LET g == Gcd(Abs(n), Abs(d))
        sign == IF d < 0 THEN 0 - 1 ELSE 1
    IN  [num |-> (sign * n) \div g, den |-> (sign * d) \div g]
RatDiv(a, b) == Rat(a.num * b.den, a.den * b.num)
RatSub(a, b) == Rat(a.num * b.den - b.num * a.den, a.den * b.den)
RatMul(a, b) == Rat(a.num * b.num, a.den * b.den)

\* A data point as data.load gives it: an object with the attributes
\* problem_size and result.
Point(problem_size, duration) == [problem_size |-> problem_size, result |-> duration]

\* A key that takes the order of the fields into account.
hashabledict_positional(st) == st

\* hashabledict(setup): a key that is equal for equal sets of (field, value)
\* pairs, whatever the order the fields were inserted in.
hashabledict(st) == SetOf(st)

\* data.load: the records of a run indexed by their setup.
RECURSIVE load(_)
load(run) ==
    IF run = <<>> THEN <<>>
    ELSE LET record == run[Len(run)][2]
         IN  Put(load(SubSeq(run, 1, Len(run) - 1)), hashabledict(record.setup),
                 [setup |-> record.setup, data |-> record.data])

\* new_duration / baseline_duration - 1 with the operands exchanged
relative_change_inverted(baseline_point, new_point) ==
    Point(baseline_point.problem_size,
          RatSub(RatDiv(baseline_point.result, new_point.result), Rat(1, 1)))

\* compare[i] = new_duration[i] / baseline_duration[i] - 1
relative_change(baseline_point, new_point) ==
    Point(baseline_point.problem_size,
          RatSub(RatDiv(new_point.result, baseline_point.result), Rat(1, 1)))

\* data.compare: the inner join of the two indices on their keys; a pair of
\* point sequences of differing lengths is dropped.
RECURSIVE data_compare(_, _)
data_compare(b, n) ==
    IF b = <<>> THEN <<>>
    ELSE LET rest == data_compare(SubSeq(b, 1, Len(b) - 1), n)
             last == b[Len(b)]
         IN  IF /\ HasKey(n, last.key)
                /\ Len(Get(n, last.key).data) = Len(last.value.data)
             THEN Append(rest,
                    [key |-> last.key,
                     value |-> [setup |-> last.value.setup,
                                baseline |-> last.value.data,
                                new |-> Get(n, last.key).data,
                                compare |->
                                    [i \in DOMAIN last.value.data |->
                                        relative_change(last.value.data[i],
                                                        Get(n, last.key).data[i])]]])
             ELSE rest

AttributeError == [raised |-> "AttributeError"]
KeyError == [raised |-> "KeyError"]

\* isinstance(data['baseline'][0].problem_size, int)
is_1d(entry) == entry.baseline[1].problem_size.type = "int"

\* values1d (oneD) and values2d (not oneD) of plot_experiment: for each field
\* of the setups of the class, in the order the fields are met, the set of
\* its values.
RECURSIVE AddValues(_, _)
AddValues(values, st) ==
    IF st = <<>> THEN values
    ELSE LET k == Head(st).key
             old == IF HasKey(values, k) THEN Get(values, k) ELSE {}
         IN  AddValues(Put(values, k, old \cup {Head(st).value}), Tail(st))

RECURSIVE ValuesOf(_, _)
ValuesOf(experiment, oneD) ==
    IF experiment = <<>> THEN <<>>
    ELSE LET rest == ValuesOf(SubSeq(experiment, 1, Len(experiment) - 1), oneD)
             last == experiment[Len(experiment)].value
         IN  IF is_1d(last) = oneD THEN AddValues(rest, last.setup) ELSE rest

\* next(iter(v)) for each field: a set is iterated in no particular order,
\* so the first value is any value of the set.
FirstValues(values) ==
    {pick \in [DOMAIN values -> UNION {values[i].value : i \in DOMAIN values}] :
        \A i \in DOMAIN values : pick[i] \in values[i].value}

\* Select(title=k, value=next(iter(v)), options=list(v)) for each field
Selects(values, pick) ==
    [i \in DOMAIN values |->
        [key |-> values[i].key,
         value |-> [value |-> pick[i], options |-> values[i].value]]]

\* The setup get_data_1d and get_data_2d assemble from the widgets.
SelectedSetup(selects) ==
    [i \in DOMAIN selects |-> [key |-> selects[i].key, value |-> selects[i].value.value]]

\* experiment[data_.hashabledict(setup)]
Lookup(selects) ==
    IF HasKey(compare, hashabledict(SelectedSetup(selects)))
    THEN Get(compare, hashabledict(SelectedSetup(selects)))
    ELSE KeyError

get_data_1d(selects) ==
    LET entry == Lookup(selects)
    IN  IF Raised(entry) THEN entry
        ELSE LET x == [i \in DOMAIN entry.baseline |-> entry.baseline[i].problem_size.val]
                 y_compare == [i \in DOMAIN entry.compare |->
                                  RatMul(entry.compare[i].result, Rat(100, 1))]
                 width == IF Len(x) >= 2 THEN Rat((x[2] - x[1]) * 8, 10) ELSE Rat(0, 1)
             IN  [x |-> x,
                  y_baseline |-> [i \in DOMAIN entry.baseline |-> entry.baseline[i].result],
                  y_new |-> [i \in DOMAIN entry.new |-> entry.new[i].result],
                  y_compare |-> y_compare,
                  positive |-> {i \in DOMAIN y_compare : y_compare[i].num >= 0},
                  negative |-> {i \in DOMAIN y_compare : y_compare[i].num < 0},
                  width |-> width]

get_data_2d(selects) ==
    LET entry == Lookup(selects)
    IN  IF Raised(entry) THEN entry
        ELSE [x |-> [i \in DOMAIN entry.baseline |-> entry.baseline[i].problem_size.val[1]],
              y |-> [i \in DOMAIN entry.baseline |-> entry.baseline[i].problem_size.val[2]],
              value_baseline |-> [i \in DOMAIN entry.baseline |-> entry.baseline[i].result],
              value_new |-> [i \in DOMAIN entry.new |-> entry.new[i].result],
              value_compare |-> [i \in DOMAIN entry.compare |->
                                    RatMul(entry.compare[i].result, Rat(100, 1))]]

\* baseline = data.load(baseline)
LoadBaseline ==
    /\ rpc = "start"
    /\ loaded' = [loaded EXCEPT !.baseline = load(files.baseline)]
    /\ rpc' = "baseline loaded"
    /\ UNCHANGED <<files, compare, selects1d, selects2d, source1d, source2d, raised>>
    /\ UNCHANGED <<fnVars, genVars, benchVars>>

\* new = data.load(new)
LoadNew ==
    /\ rpc = "baseline loaded"
    /\ loaded' = [loaded EXCEPT !.new = load(files.new)]
    /\ rpc' = "loaded"
    /\ UNCHANGED <<files, compare, selects1d, selects2d, source1d, source2d, raised>>
    /\ UNCHANGED <<fnVars, genVars, benchVars>>

\* compare = data.compare(baseline, new)
Compare ==
    /\ rpc = "loaded"
    /\ compare' = data_compare(loaded.baseline, loaded.new)
    /\ rpc' = "compared"
    /\ UNCHANGED <<files, loaded, selects1d, selects2d, source1d, source2d, raised>>
    /\ UNCHANGED <<fnVars, genVars, benchVars>>

\* html = plot.make_html(compare): compare/plot.py defines no make_html.
MakeHtml ==
    /\ rpc = "compared"
    /\ raised' = AttributeError
    /\ rpc' = "raised"
    /\ UNCHANGED <<files, loaded, compare, selects1d, selects2d, source1d, source2d>>
    /\ UNCHANGED <<fnVars, genVars, benchVars>>

\* serve: plot_experiment(experiment) builds the widgets of the 1-D plot and
\* looks its data up, then those of the 2-D plot; a failed lookup leaves
\* plot_experiment as a KeyError.
PlotExperiment ==
    /\ rpc = "compared"
    /\ \E pick1 \in FirstValues(ValuesOf(compare, TRUE)),
          pick2 \in FirstValues(ValuesOf(compare, FALSE)) :
            LET s1 == Selects(ValuesOf(compare, TRUE), pick1)
                s2 == Selects(ValuesOf(compare, FALSE), pick2)
            IN  /\ selects1d' = s1
                /\ IF Raised(get_data_1d(s1))
                   THEN /\ raised' = get_data_1d(s1)
                        /\ rpc' = "raised"
                        /\ UNCHANGED <<selects2d, source1d, source2d>>
                   ELSE /\ source1d' = get_data_1d(s1)
                        /\ selects2d' = s2
                        /\ IF Raised(get_data_2d(s2))
                           THEN /\ raised' = get_data_2d(s2)
                                /\ rpc' = "raised"
                                /\ UNCHANGED source2d
                           ELSE /\ source2d' = get_data_2d(s2)
                                /\ rpc' = "serving"
                                /\ UNCHANGED raised
    /\ UNCHANGED <<files, loaded, compare>>
    /\ UNCHANGED <<fnVars, genVars, benchVars>>

\* A widget with another of its options selected.
Selected(selects, i, v) == [selects EXCEPT ![i].value.value = v]

\* The user selects another option of a widget of the 1-D plot: update1d.
update1d ==
    /\ rpc = "serving"
    /\ \E i \in DOMAIN selects1d : \E v \in selects1d[i].value.options :
            /\ v # selects1d[i].value.value
            /\ selects1d' = Selected(selects1d, i, v)
            /\ IF Raised(get_data_1d(Selected(selects1d, i, v)))
               THEN /\ raised' = get_data_1d(Selected(selects1d, i, v))
                    /\ UNCHANGED source1d
               ELSE /\ source1d' = get_data_1d(Selected(selects1d, i, v))
                    /\ UNCHANGED raised
    /\ UNCHANGED <<files, loaded, compare, rpc, selects2d, source2d>>
    /\ UNCHANGED <<fnVars, genVars, benchVars>>

\* The user selects another option of a widget of the 2-D plot: update2d.
update2d ==
    /\ rpc = "serving"
    /\ \E i \in DOMAIN selects2d : \E v \in selects2d[i].value.options :
            /\ v # selects2d[i].value.value
            /\ selects2d' = Selected(selects2d, i, v)
            /\ IF Raised(get_data_2d(Selected(selects2d, i, v)))
               THEN /\ raised' = get_data_2d(Selected(selects2d, i, v))
                    /\ UNCHANGED source2d
               ELSE /\ source2d' = get_data_2d(Selected(selects2d, i, v))
                    /\ UNCHANGED raised
    /\ UNCHANGED <<files, loaded, compare, rpc, selects1d, source1d>>
    /\ UNCHANGED <<fnVars, genVars, benchVars>>

(***************************************************************************)
(* The persisted runs the report is given: up to MaxRecords records, each  *)
(* the sweep of one setup with up to MaxPoints points.                     *)
(***************************************************************************)
MaxRecords == 3
MaxPoints == 2

Field(k, v) == [key |-> k, value |-> v]

\* The setups of the runs, with their fields in the order setup() gives
\* them: a 1-D sweep on the cpu, one that differs from it in two fields, one
\* that lacks the field non_contiguous_size, and two 2-D sweeps.
SetupA == <<Field("op", PyStr("abs")), Field("dtype", PyStr("torch.float32")),
            Field("layout", PyStr("all contiguous 1d")), Field("device", PyStr("cpu")),
            Field("non_contiguous_size", None)>>
SetupB == <<Field("op", PyStr("abs")), Field("dtype", PyStr("torch.float16")),
            Field("layout", PyStr("all contiguous 1d")), Field("device", PyStr("cuda")),
            Field("non_contiguous_size", None)>>
SetupC == SubSeq(SetupA, 1, Len(SetupA) - 1)
SetupD == <<Field("op", PyStr("abs")), Field("dtype", PyStr("torch.float32")),
            Field("layout", PyStr("contiguous 1d and non-contiguous 1d")),
            Field("device", PyStr("cpu")), Field("non_contiguous_size", PyInt(2))>>
SetupE == <<Field("op", PyStr("abs")), Field("dtype", PyStr("torch.float32")),
            Field("layout", PyStr("contiguous 1d and non-contiguous 1d")),
            Field("device", PyStr("cpu")), Field("non_contiguous_size", PyInt(4))>>
Setups == <<SetupA, SetupB, SetupC, SetupD, SetupE>>

Reverse(s) == [i \in DOMAIN s |-> s[Len(s) + 1 - i]]

\* The sweep of a setup: n points at the problem sizes 16, 17, ... (2-D
\* sweeps: pairs with the non-contiguous size of the setup), each of the
\* same duration.
Sweep(st, n, duration) ==
    [i \in 1..n |->
        Point(IF st[Len(st)].value.type = "int"
              THEN PyTuple(<<15 + i, st[Len(st)].value.val>>)
              ELSE PyInt(15 + i),
              Rat(duration, 1))]

RECURSIVE Ascending(_)
Ascending(S) ==
    IF S = {} THEN <<>>
    ELSE LET m == CHOOSE x \in S : \A y \in S : x <= y
         IN  <<m>> \o Ascending(S \ {m})

\* The runs: a record for each setup of a choice of at most MaxRecords
\* setups, every sweep of the run with the same number of points, at most
\* MaxPoints; `reversed` runs were written with the fields of a setup in
\* the opposite order.
Runs(duration, reversed) ==
    {[n \in DOMAIN Ascending(I) |->
        LET st == Setups[Ascending(I)[n]]
        IN  <<title, [setup |-> IF reversed THEN Reverse(st) ELSE st,
                      data |-> Sweep(st, len, duration)]>>] :
        I \in {J \in SUBSET DOMAIN Setups : Cardinality(J) <= MaxRecords},
        len \in 1..MaxPoints}

\* The baseline run took 2 seconds for every point; the new run took 1, 2
\* or 3 seconds for every point.
ReportInit ==
    /\ FnIdle
    /\ GenIdle
    /\ BenchIdle
    /\ \E b \in Runs(2, FALSE) : \E d \in 1..3 : \E n \in Runs(d, TRUE) :
            files = [baseline |-> b, new |-> n]
    /\ loaded = [baseline |-> Pending, new |-> Pending]
    /\ compare = Pending
    /\ rpc = "start"
    /\ selects1d = <<>>
    /\ selects2d = <<>>
    /\ source1d = Pending
    /\ source2d = Pending
    /\ raised = NoError

ReportNext ==
    \/ LoadBaseline
    \/ LoadNew
    \/ Compare
    \/ MakeHtml
    \/ PlotExperiment
    \/ update1d
    \/ update2d

SpecReport == ReportInit /\ [][ReportNext]_vars

(***************************************************************************)
(* The functions of the generator and the factories, applied to arguments  *)
(* drawn from bounded sets.                                                *)
(***************************************************************************)
Calls ==
    {[fn |-> "split_size", size |-> size, dims |-> dims] :
        size \in 0..MaxBudget, dims \in 1..MaxDims}
    \cup
    {[fn |-> "make_layout_shape", layout |-> descriptor,
      contiguous_size |-> cs,
      non_contiguous_size |-> ncs] :
        descriptor \in Descriptors, cs \in 0..MaxBudget, ncs \in 0..MaxBudget}

FnInit ==
    /\ call \in Calls
    /\ result = Pending
    /\ tensor = None
    /\ GenIdle
    /\ BenchIdle
    /\ ReportIdle

CallSplitSize ==
    /\ call.fn = "split_size"
    /\ result = Pending
    /\ result' = Returned(split_size(call.size, call.dims))
    /\ UNCHANGED <<call, tensor, genVars, benchVars, reportVars>>

CallMakeLayoutShape ==
    /\ call.fn = "make_layout_shape"
    /\ result = Pending
    /\ LET r == make_layout_shape(call.layout, call.contiguous_size,
                                  call.non_contiguous_size)
       IN  result' = IF Raised(r) THEN r ELSE Returned(r)
    /\ UNCHANGED <<call, tensor, genVars, benchVars, reportVars>>

\* The case make_layout_shape returned is materialized.
CallNew ==
    /\ call.fn = "make_layout_shape"
    /\ "returned" \in DOMAIN result
    /\ tensor = None
    /\ tensor' = new(result.returned.case)
    /\ UNCHANGED <<call, result, genVars, benchVars, reportVars>>

FnNext == CallSplitSize \/ CallMakeLayoutShape \/ CallNew

SpecFn == FnInit /\ [][FnNext]_vars

(***************************************************************************)
(* combine_layouts_and_shapes applied to a layout table, `more` and a      *)
(* dtype: the two tables of the module, and every table of one descriptor. *)
(***************************************************************************)
Tables == {layouts_full, layouts_small} \cup {<<d>> : d \in Descriptors}

CombineInit ==
    /\ FnIdle
    /\ BenchIdle
    /\ ReportIdle
    /\ layouts \in Tables
    /\ more \in BOOLEAN
    /\ dtype \in SetOf(all_dtypes)
    /\ pc = "gen"
    /\ li = 1
    /\ size1 = 0
    /\ size2 = 0
    /\ ret1d = <<>>
    /\ ret2d = <<>>

SpecCombine == CombineInit /\ [][GenNext]_vars

(***************************************************************************)
(* Claims about the functions                                              *)
(***************************************************************************)
RECURSIVE SumSeq(_)
SumSeq(s) == IF s = <<>> THEN 0 ELSE Head(s) + SumSeq(Tail(s))

\* C1: for every size s >= 0 and axis count d >= 1, split_size(s, d) is a
\* tuple of exactly d non-negative integers whose sum is s; its first d-1
\* entries equal s // d and its last entry is s // d plus the remainder
\* s mod d; split_size(10, 3) = (3, 3, 4).
C1_SplitSize ==
    (call.fn = "split_size" /\ result # Pending) =>
        LET t == result.returned
            s == call.size
            d == call.dims
        IN  /\ Len(t) = d
            /\ \A i \in 1..d : t[i] \in Nat
            /\ SumSeq(t) = s
            /\ \A i \in 1..(d - 1) : t[i] = s \div d
            /\ t[d] = (s \div d) + (s % d)
            /\ (s = 10 /\ d = 3) => t = <<3, 3, 4>>

\* split_size(10, 3) has returned (3, 3, 4): a budget with a remainder.
C1_Witness ==
    /\ call = [fn |-> "split_size", size |-> 10, dims |-> 3]
    /\ result = Returned(<<3, 3, 4>>)

\* The call was make_layout_shape, it returned a case, and the case's array
\* has been built.
Built == call.fn = "make_layout_shape" /\ tensor # None

BuiltCase == result.returned.case

\* C7: the array built by the non_contiguous factory has the requested
\* logical shape and, on every axis, an element stride strictly greater than
\* the stride of a fully contiguous array of the same shape; so has the array
\* built by contiguous_last_dim on each of its non-contiguous axes (all but
\* the last); strides are natural numbers, none negative.
C7_PaddedStrides ==
    Built =>
        LET shape == BuiltCase.shape
            n == Len(shape)
            plain == trivial_1d(shape).stride
        IN  /\ tensor.shape = shape
            /\ Len(tensor.stride) = n
            /\ BuiltCase.factory = "non_contiguous" =>
                    \A i \in 1..n : BigGt(tensor.stride[i], plain[i])
            /\ BuiltCase.factory = "contiguous_last_dim" =>
                    \A i \in 1..(n - 1) : BigGt(tensor.stride[i], plain[i])

\* A 2-D all-non-contiguous array of shape (2, 4) has been built.
C7_Witness ==
    /\ Built
    /\ call.layout = <<"non_contiguous", "non_contiguous">>
    /\ call.non_contiguous_size = 3
    /\ tensor.shape = <<Big(2), Big(4)>>
    /\ tensor.stride = <<Big(10), Big(2)>>

Mixed(descriptor) == SetOf(descriptor) = {"contiguous", "non_contiguous"}

\* C8 as stated: for a mixed layout the buffer is one element larger than the
\* shape on the non-contiguous axes only, and on the contiguous (last) axis
\* the buffer's extent is the requested extent 2^contiguous_size.
C8_Original ==
    (Built /\ Mixed(call.layout)) =>
        LET shape == BuiltCase.shape
            n == Len(shape)
        IN  /\ shape[n] = Pow2(call.contiguous_size)
            /\ \A i \in 1..(n - 1) :
                    tensor.underlying[i] = BigAdd(shape[i], Big(1))
            /\ tensor.underlying[n] = shape[n]

\* C8 amended: for a mixed layout the contiguous axis is the last axis of the
\* shape, with extent 2^contiguous_size, and the buffer is one element larger
\* than the shape on every axis, the contiguous one included.
C8_PaddedEverywhere ==
    (Built /\ Mixed(call.layout)) =>
        LET shape == BuiltCase.shape
            n == Len(shape)
        IN  /\ n = Len(call.layout)
            /\ shape[n] = Pow2(call.contiguous_size)
            /\ tensor.shape = shape
            /\ \A i \in 1..n : tensor.underlying[i] = BigAdd(shape[i], Big(1))

\* A mixed array of shape (2, 4, 4) has been built over a (3, 5, 5) buffer.
C8_Witness ==
    /\ Built
    /\ call.layout = <<"contiguous", "non_contiguous", "non_contiguous">>
    /\ call.contiguous_size = 2
    /\ call.non_contiguous_size = 3
    /\ tensor.shape = <<Big(2), Big(4), Big(4)>>
    /\ tensor.underlying = <<Big(3), Big(5), Big(5)>>

(***************************************************************************)
(* Claims about combine_layouts_and_shapes                                 *)
(***************************************************************************)
Pure(descriptor) == SetOf(descriptor) \in {{"contiguous"}, {"non_contiguous"}}

\* The sweep name of a descriptor that make_layout_shape accepts.
NameOf(descriptor) == make_layout_shape(descriptor, 0, 0).name

\* The case of a descriptor for one size (pure) or pair of sizes (mixed).
CaseOf(descriptor, s1, s2) ==
    IF SetOf(descriptor) = {"contiguous"} THEN make_layout_shape(descriptor, s1, 0).case
    ELSE IF SetOf(descriptor) = {"non_contiguous"}
    THEN make_layout_shape(descriptor, 0, s1).case
    ELSE make_layout_shape(descriptor, s1, s2).case

\* The padded byte footprint of a shape and the byte budget.
PaddedBytes(descriptor, shape) ==
    BigMul(numel_after_pad(descriptor, shape), Big(sizeof(dtype)))
Budget == Pow2(max_size)

\* The layouts of the table that generation has taken up so far.
Started == {i \in DOMAIN layouts : i <= li /\ ~Raised(make_layout_shape(layouts[i], 0, 0))}

\* The sweep lists of layout i: (non_contiguous_size, list) pairs; a pure
\* layout has one list, with no non_contiguous_size (0 stands for it).
SweepsOf(i) ==
    LET nm == NameOf(layouts[i])
    IN  IF Pure(layouts[i])
        THEN {<<0, IF HasKey(ret1d, nm) THEN Get(ret1d, nm) ELSE <<>> >>}
        ELSE IF HasKey(ret2d, nm)
             THEN {<<e.key, e.value>> : e \in SetOf(Get(ret2d, nm))}
             ELSE {}

StrictlyIncreasing(list) ==
    \A i, j \in DOMAIN list :
        i < j => list[i].problem_size.val < list[j].problem_size.val

\* The list holds the cases of the sizes 0, step, 2*step, ... and no other.
Gapless(i, k, list) ==
    \A n \in DOMAIN list : list[n] = CaseOf(layouts[i], (n - 1) * step, k)

\* The first size that is not in the list is past max_size or over budget.
EndsAtBudget(i, k, list) ==
    LET next == Len(list) * step
    IN  \/ next > max_size
        \/ BigGt(PaddedBytes(layouts[i], CaseOf(layouts[i], next, k).shape), Budget)

\* C2: every sweep list (one per pure layout, one per mixed layout and
\* non-contiguous size) has strictly increasing problem_size values and holds
\* the cases of the sizes 0, step, 2*step, ... up to, and not including, the
\* first size whose padded byte footprint exceeds 2^max_size: nothing past
\* that size is in the list.  While the loop of a pure layout runs, every
\* size before the current one has been appended (the loop has not gone past
\* a size it did not append).
C2_SweepStopsAtBudget ==
    /\ (pc = "gen" /\ li \in Started /\ Pure(layouts[li])) =>
            \A sw \in SweepsOf(li) : Len(sw[2]) * step = size1
    /\ pc = "returned" =>
            \A i \in Started : \A sw \in SweepsOf(i) :
                /\ StrictlyIncreasing(sw[2])
                /\ Gapless(i, sw[1], sw[2])
                /\ EndsAtBudget(i, sw[1], sw[2])

\* The full table has been generated for float32: the contiguous 1-D sweep
\* stopped at size 30, the first over budget, and the mixed sweeps exist.
C2_Witness ==
    /\ pc = "returned"
    /\ layouts = layouts_full /\ more /\ dtype = "torch.float32"
    /\ Len(Get(ret1d, "all contiguous 1d")) = 30
    /\ HasKey(ret2d, "contiguous 1d and non-contiguous 3d")
    /\ Len(Get(Get(ret2d, "contiguous 1d and non-contiguous 3d"), 20)) > 1
    /\ Len(Get(Get(ret2d, "contiguous 1d and non-contiguous 3d"), 20)) < 32

\* C3: every case that combine_layouts_and_shapes returns, in ret1d and in
\* ret2d, for every dtype and for the small and the full table, has
\* numel_after_pad(layout, shape) * sizeof(dtype) <= 2^max_size.
C3_WithinBudget ==
    pc = "returned" =>
        \A i \in Started : \A sw \in SweepsOf(i) : \A n \in DOMAIN sw[2] :
            BigLe(PaddedBytes(layouts[i], sw[2][n].shape), Budget)

\* The full table has been generated for uint8: the contiguous 1-D sweep
\* holds all 32 sizes, the last of exactly 2^31 bytes.
C3_Witness ==
    /\ pc = "returned"
    /\ layouts = layouts_full /\ more /\ dtype = "torch.uint8"
    /\ Len(Get(ret1d, "all contiguous 1d")) = 32
    /\ Get(ret1d, "all contiguous 1d")[32].shape = <<Pow2(31)>>
    /\ HasKey(ret2d, "contiguous 1d and non-contiguous 1d")

\* C9 as stated: a case of a pure layout has a single exponent as its
\* problem_size and is_1d classifies its sweep as one-dimensional; a case of
\* a mixed layout has the pair (contiguous budget, non-contiguous budget) and
\* is_1d classifies its sweep as two-dimensional.
C9_Original ==
    \A i \in Started : \A sw \in SweepsOf(i) :
        sw[2] # <<>> =>
            LET entry == [baseline |-> [n \in DOMAIN sw[2] |-> PointOf(sw[2][n])]]
            IN  IF Pure(layouts[i])
                THEN /\ \A n \in DOMAIN sw[2] : sw[2][n].problem_size.type = "int"
                     /\ is_1d(entry)
                ELSE /\ \A n \in DOMAIN sw[2] :
                            sw[2][n].problem_size
                                = PyTuple(<<(n - 1) * step, sw[1]>>)
                     /\ ~is_1d(entry)

\* All cases generated so far under the name of layout i.
RECURSIVE Flatten(_)
Flatten(lists) == IF lists = <<>> THEN <<>> ELSE Head(lists).value \o Flatten(Tail(lists))

CasesUnder(i) ==
    LET nm == NameOf(layouts[i])
    IN  IF Pure(layouts[i])
        THEN IF HasKey(ret1d, nm) THEN Get(ret1d, nm) ELSE <<>>
        ELSE IF HasKey(ret2d, nm) THEN Flatten(Get(ret2d, nm)) ELSE <<>>

\* C10 as stated: no two cases under one sweep name have the same
\* problem_size, for mixed layouts across all their non-contiguous sizes too.
C10_Original ==
    \A i \in Started :
        LET cases == CasesUnder(i)
        IN  \A m, n \in DOMAIN cases :
                m # n => cases[m].problem_size # cases[n].problem_size

(***************************************************************************)
(* Claims about the run                                                    *)
(***************************************************************************)
\* A descriptor of one or more axes, all contiguous, all non-contiguous, or
\* one contiguous axis first and non-contiguous axes after it.
ValidDescriptor(d) ==
    /\ Len(d) >= 1
    /\ \/ \A i \in DOMAIN d : d[i] = "contiguous"
       \/ \A i \in DOMAIN d : d[i] = "non_contiguous"
       \/ d[1] = "contiguous" /\ \A i \in 2..Len(d) : d[i] = "non_contiguous"

\* Generation has gone past the first iteration for layout i of the table.
Accepted(i) ==
    /\ pc \in {"gen", "returned"}
    /\ i < li \/ (i = li /\ (size1 > 0 \/ size2 > 0))

\* C4: make_layout_shape raises on exactly the descriptors that are empty,
\* hold an unknown tag, or hold both tags without being one contiguous axis
\* first; generation goes past the first iteration of a layout only when its
\* descriptor is valid, raises only on an invalid one, and when it has raised
\* no array has been built or timed and no record has been emitted.
C4_InvalidDescriptorRaises ==
    /\ li \in DOMAIN layouts =>
            (Raised(make_layout_shape(layout, size1, size2)) <=> ~ValidDescriptor(layout))
    /\ \A i \in DOMAIN layouts : Accepted(i) => ValidDescriptor(layouts[i])
    /\ pc = "raised" =>
            /\ ~ValidDescriptor(layout)
            /\ size1 = 0 /\ size2 = 0
            /\ tensor = None /\ live = {} /\ data = <<>> /\ results = <<>>

\* The table held the descriptor (non_contiguous, contiguous): generation has
\* raised and the exception has left the generator.
C4_Witness ==
    /\ layouts = << <<"non_contiguous", "contiguous">> >>
    /\ pc = "raised"
    /\ opc = "raised"

\* C5 as stated: a case that raises in benchmark_cpu or benchmark_cuda does
\* not end the run: the generator is never left by an exception of a case.
C5_Original == opc = "raised" => pc = "raised"

\* C6: at most one array is live at any moment; the array of a case is live
\* from its construction until its data point has been appended, and is
\* reclaimed before the next case is constructed or the record is yielded;
\* the data points are those of the cases in generation order.
C6_OneLiveArray ==
    /\ Cardinality(live) <= 1
    /\ opc \in {"bench", "combo", "get", "finished"} => live = {}
    /\ opc \in {"time", "release"} =>
            /\ live = {[record |-> Len(results) + 1, case |-> fi]}
            /\ tensor = new(factories[fi])
    /\ opc \in {"bench", "time", "release"} =>
            /\ Len(data) = IF opc = "release" THEN fi ELSE fi - 1
            /\ \A n \in DOMAIN data : data[n].problem_size = factories[n].problem_size

\* The third case of a sweep is about to be constructed: two data points are
\* recorded and no array is live.
C6_Witness ==
    /\ opc = "bench"
    /\ fi = 3
    /\ Len(factories) >= 3
    /\ Len(data) = 2
    /\ live = {}

(***************************************************************************)
(* Claims about the matrix of records                                      *)
(***************************************************************************)
\* The sweeps of the combination at hand, in the order of f1d.items() and of
\* f2d.items() with its groups: (sweep name, non_contiguous_size) pairs.
RECURSIVE GroupsOf(_)
GroupsOf(d) ==
    IF d = <<>> THEN <<>>
    ELSE [g \in DOMAIN Head(d).value |-> <<Head(d).key, PyInt(Head(d).value[g].key)>>]
            \o GroupsOf(Tail(d))

SweepKeys == [i \in DOMAIN ret1d |-> <<ret1d[i].key, None>>] \o GroupsOf(ret2d)

\* One setup per sweep and device the dtype is exercised on, cpu first.
RECURSIVE MatrixOf(_)
MatrixOf(sweeps) ==
    IF sweeps = <<>> THEN <<>>
    ELSE LET row(device) == [op |-> op, dtype |-> dtype, layout |-> Head(sweeps)[1],
                             device |-> device, non_contiguous_size |-> Head(sweeps)[2]]
         IN  (IF dtype = "torch.float16" THEN <<row("cuda")>>
              ELSE <<row("cpu"), row("cuda")>>) \o MatrixOf(Tail(sweeps))

SetupAt(n) == results[n][2].setup

\* C11: no record has device cpu with dtype float16; within an invocation
\* of the generator a cpu record is followed at once by the cuda record of
\* the same sweep and a cuda record of another dtype follows its cpu
\* record; when a combination is done, the
\* records emitted for it are exactly one per sweep name (and non-contiguous
\* size group) and device, in order, and no setup occurs twice in the run.
C11_OneRecordPerCombination ==
    /\ \A n \in DOMAIN results :
            /\ ~(SetupAt(n).device = "cpu" /\ SetupAt(n).dtype = "torch.float16")
            /\ SetupAt(n).device \in {"cpu", "cuda"}
            /\ (SetupAt(n).device = "cpu" /\ n < Len(results) /\ n \notin SetOf(invoked)) =>
                    SetupAt(n + 1) = [SetupAt(n) EXCEPT !.device = "cuda"]
            /\ (SetupAt(n).device = "cuda" /\ SetupAt(n).dtype # "torch.float16") =>
                    /\ n > 1
                    /\ n - 1 \notin SetOf(invoked)
                    /\ SetupAt(n - 1) = [SetupAt(n) EXCEPT !.device = "cpu"]
    /\ (opc = "combo" /\ pc = "returned") =>
            LET matrix == MatrixOf(SweepKeys)
                before == Len(results) - Len(matrix)
            IN  /\ before >= 0
                /\ \A n \in DOMAIN matrix : SetupAt(before + n) = matrix[n]
                /\ \A m, n \in DOMAIN results : m # n => SetupAt(m) # SetupAt(n)

\* Two combinations of the selected set are done on the table of the source:
\* a float16 one with cuda records only and a float32 one with both devices.
C11_Witness ==
    /\ opc = "combo" /\ pc = "returned" /\ taken = 2
    /\ layouts = get_layout
    /\ dtype = "torch.float32"
    /\ \E n \in DOMAIN results : SetupAt(n).dtype = "torch.float16"
    /\ SetupAt(Len(results)).device = "cuda"
    /\ SetupAt(Len(results) - 1).device = "cpu"

(***************************************************************************)
(* Claims about the comparison and the report                              *)
(***************************************************************************)
Compared == rpc \in {"compared", "raised", "serving"}

\* Two setups with the same field names and the same value for each.
SameFields(s, t) ==
    /\ Len(s) = Len(t)
    /\ \A i \in DOMAIN s : \E j \in DOMAIN t : s[i] = t[j]

\* The data a run holds for a setup, if it holds any.
DataIn(run, s) == {run[r][2].data : r \in {q \in DOMAIN run : SameFields(run[q][2].setup, s)}}

HasEntry(s) == \E e \in DOMAIN compare : SameFields(compare[e].value.setup, s)

\* C13 as stated: the output has an entry for a setup if and only if both
\* runs hold a record with the same field names and values.
C13_Original ==
    Compared =>
        \A i \in DOMAIN Setups :
            HasEntry(Setups[i]) <=>
                /\ DataIn(files.baseline, Setups[i]) # {}
                /\ DataIn(files.new, Setups[i]) # {}

\* C13 amended: the output has an entry for a setup if and only if both runs
\* hold a record with the same field names and values, whatever the order of
\* the fields, and the two records have the same number of points; no setup
\* has two entries.
C13_InnerJoin ==
    Compared =>
        /\ \A i \in DOMAIN Setups :
              HasEntry(Setups[i]) <=>
                  \E b \in DataIn(files.baseline, Setups[i]) :
                      \E n \in DataIn(files.new, Setups[i]) : Len(b) = Len(n)
        /\ \A e \in DOMAIN compare : \E i \in DOMAIN Setups :
              SameFields(compare[e].value.setup, Setups[i])
        /\ \A e, f \in DOMAIN compare :
              e # f => ~SameFields(compare[e].value.setup, compare[f].value.setup)

\* The baseline run holds SetupA and SetupB, the new run SetupA, with its
\* fields in the opposite order, and SetupC: the output holds SetupA alone.
C13_Witness ==
    /\ rpc = "compared"
    /\ Len(files.baseline) = 2 /\ Len(files.new) = 2
    /\ files.baseline[1][2].setup = SetupA
    /\ files.baseline[2][2].setup = SetupB
    /\ files.new[1][2].setup = Reverse(SetupA)
    /\ files.new[2][2].setup = Reverse(SetupC)
    /\ Len(compare) = 1
    /\ HasEntry(SetupA)

\* C18 as stated: no lookup of get_data_1d or get_data_2d fails, when
\* plot_experiment builds the plots and after every selection.
C18_Original == Raised(raised) => raised # KeyError

(***************************************************************************)
(* Claims about the degenerate case and the allocation                     *)
(***************************************************************************)
DegenerateMixed == make_layout_shape(<<"contiguous", "non_contiguous">>, 0, 0)

\* C14: make_layout_shape on (contiguous, non_contiguous) with both sizes 0
\* raises nothing and gives the shape (1, 1); when combine_layouts_and_shapes
\* returns for a table that holds this descriptor, the case is the first of
\* the group of non-contiguous size 0 under the name of the descriptor,
\* whatever the dtype and `more`.
C14_DegenerateShape ==
    /\ ~Raised(DegenerateMixed)
    /\ DegenerateMixed.case.shape = <<Big(1), Big(1)>>
    /\ pc = "returned" =>
          \A i \in DOMAIN layouts :
              layouts[i] = <<"contiguous", "non_contiguous">> =>
                  /\ HasKey(ret2d, DegenerateMixed.name)
                  /\ HasKey(Get(ret2d, DegenerateMixed.name), 0)
                  /\ Get(Get(ret2d, DegenerateMixed.name), 0)[1] = DegenerateMixed.case

\* The full table has been generated for a dtype of 8 bytes and the
\* degenerate case is in the output.
C14_Witness ==
    /\ pc = "returned"
    /\ layouts = layouts_full
    /\ dtype = "torch.float64"
    /\ HasKey(ret2d, DegenerateMixed.name)
    /\ Get(Get(ret2d, DegenerateMixed.name), 0)[1].shape = <<Big(1), Big(1)>>

\* prod(x + 1) over the axes of a shape
PaddedProduct(shape) == BigProd([i \in DOMAIN shape |-> BigAdd(shape[i], Big(1))])

\* C16: for the case make_layout_shape returns for a descriptor, the buffer
\* its factory allocates has numel_after_pad(descriptor, shape) elements:
\* prod(shape) for trivial_1d, 2 * prod(x + 1) for non_contiguous and
\* prod(x + 1) over all axes for contiguous_last_dim.
C16_NumelAfterPad ==
    Built =>
        LET shape == BuiltCase.shape
            allocated == BigProd(tensor.underlying)
        IN  /\ allocated = numel_after_pad(call.layout, shape)
            /\ BuiltCase.factory = "trivial_1d" => allocated = BigProd(shape)
            /\ BuiltCase.factory = "non_contiguous" =>
                    allocated = BigMul(Big(2), PaddedProduct(shape))
            /\ BuiltCase.factory = "contiguous_last_dim" =>
                    allocated = PaddedProduct(shape)

\* A 3-D all-non-contiguous array of shape (2, 2, 4) has been built: its
\* buffer has 2 * 3 * 3 * 5 = 90 elements.
C16_Witness ==
    /\ Built
    /\ call.layout = <<"non_contiguous", "non_contiguous", "non_contiguous">>
    /\ call.non_contiguous_size = 4
    /\ BuiltCase.shape = <<Big(2), Big(2), Big(4)>>
    /\ BigProd(tensor.underlying) = Big(90)

(***************************************************************************)
(* Claims about invoking the generator again                               *)
(***************************************************************************)
\* The records of the j-th invocation of run(more).
RecordsOf(j) ==
    SubSeq(results, invoked[j] + 1,
           IF j < Len(invoked) THEN invoked[j + 1] ELSE Len(results))

\* C17 as stated: every invocation of run(more) enumerates the same sequence
\* of setups as the first one, as far as both have been consumed.
C17_Original ==
    \A j \in DOMAIN invoked :
        \A n \in DOMAIN RecordsOf(j) \cap DOMAIN RecordsOf(1) :
            RecordsOf(j)[n][2].setup = RecordsOf(1)[n][2].setup

(***************************************************************************)
(* Claims about the groups of a mixed sweep                                *)
(***************************************************************************)
SetupFields == {"op", "dtype", "layout", "device", "non_contiguous_size"}

\* The cases of a record's sweep in f1d or f2d, found by the record's setup.
CasesOfRecord(st) ==
    IF st.non_contiguous_size = None
    THEN IF HasKey(ret1d, st.layout) THEN Get(ret1d, st.layout) ELSE <<>>
    ELSE IF /\ HasKey(ret2d, st.layout)
            /\ HasKey(Get(ret2d, st.layout), st.non_contiguous_size.val)
         THEN Get(Get(ret2d, st.layout), st.non_contiguous_size.val)
         ELSE <<>>

\* C15: when combine_layouts_and_shapes has returned, the n-th case of
\* ret2d[name][k] is the case of the sizes ((n - 1) * step, k): its
\* non-contiguous axes are 2^split_size(k, axes) and the cases of the group
\* differ in the contiguous axis only.  The record yielded for a group has
\* non_contiguous_size = k in its setup and the data points of the cases of
\* that group; the record of a pure sweep has non_contiguous_size = None;
\* every setup has the five fields op, dtype, layout, device and
\* non_contiguous_size.
C15_GroupsBySize ==
    /\ (opc = "get" /\ pc = "returned") =>
          \A i \in DOMAIN layouts :
              ~Pure(layouts[i]) =>
                  \A sw \in SweepsOf(i) :
                      LET axes == Len(layouts[i]) - 1
                          outer == split_size(sw[1], axes)
                      IN  \A n \in DOMAIN sw[2] :
                              /\ sw[2][n] = make_layout_shape(layouts[i],
                                                (n - 1) * step, sw[1]).case
                              /\ Len(sw[2][n].shape) = axes + 1
                              /\ \A a \in 1..axes : sw[2][n].shape[a] = Pow2(outer[a])
                              /\ sw[2][n].shape[axes + 1] = Pow2((n - 1) * step)
    /\ (results # <<>> /\ pc = "returned" /\ Len(results) > invoked[Len(invoked)]) =>
          LET st == SetupAt(Len(results))
              points == results[Len(results)][2].data
          IN  /\ DOMAIN st = SetupFields
              /\ (st.op = op /\ st.dtype = dtype) =>
                    /\ HasKey(ret1d, st.layout) <=> st.non_contiguous_size = None
                    /\ HasKey(ret2d, st.layout) <=> st.non_contiguous_size # None
                    /\ CasesOfRecord(st) # <<>>
                    /\ points = [n \in DOMAIN CasesOfRecord(st) |->
                                    PointOf(CasesOfRecord(st)[n])]

\* Records of a pure sweep and of the group of non-contiguous size 2 of a
\* mixed sweep have been yielded for the table of the source.
C15_Witness ==
    /\ layouts = get_layout
    /\ pc = "returned"
    /\ \E n \in DOMAIN results : SetupAt(n).non_contiguous_size = None
    /\ SetupAt(Len(results)).non_contiguous_size = PyInt(2)
    /\ SetupAt(Len(results)).layout = "contiguous 1d and non-contiguous 3d"
    /\ Len(results[Len(results)][2].data) >= 2

====
